---- MODULE Spec2Model ----
(***************************************************************************)
(* RequestQueue (src/app/services/request_queue.py): a FIFO backlog, a     *)
(* live map and a finished map of request records, a processing counter,   *)
(* one dispatcher thread (_process_queue) and one execution-unit thread    *)
(* per dequeued request (_execute_rag_request).                            *)
(*                                                                         *)
(* A request record is a Python dict; it is modelled as a TLA+ function    *)
(* whose domain is the set of keys the dict has.  The maps and the backlog *)
(* hold references to the record, modelled as the record's index in        *)
(* `records` (the order of the add_request calls).                         *)
(*                                                                         *)
(* Every `with self.lock:` block is two steps: the acquisition of the      *)
(* lock, and the body together with the release.                           *)
(***************************************************************************)
EXTENDS Integers, Sequences, FiniteSets, TLC

\* ---------------------------------------------------------------- bounds
MaxTasks == 2
MaxConcurrent == 2
\* the threads that call start_worker after the construction
MaxStarters == 2

\* ---------------------------------------------------------------- inputs
Ids == {"r1", "r2"}
\* the query of the t-th add_request call: queries are opaque to the queue,
\* each call passes its own
Query(t) == <<"query", t>>
\* the opaque work functions a caller may pass as rag_chain
RagChains == {"answers", "raises", "exits", "hangs"}

VARIABLES
    max_concurrent,      \* self.max_concurrent
    queue,               \* self.queue.queue: the FIFO backlog (record indices)
    unfinished_tasks,    \* self.queue.unfinished_tasks
    records,             \* the request dicts, in order of creation
    add_result,          \* add_result[t]: what the t-th add_request returned
    active_requests,     \* self.active_requests: id -> record
    completed_requests,  \* self.completed_requests: id -> record
    current_processing,  \* self.current_processing
    lock,                \* owner of self.lock
    caller,              \* position of the thread calling add_request
    worker,              \* the dispatcher thread: its position and `req`
    unit,                \* the execution-unit threads, one per record
    worker_thread,       \* self.worker_thread: a thread of `threads`, or 0
    threads,             \* the dispatcher threads created so far
    starter,             \* position of each thread calling start_worker
    session_state        \* st.session_state of main.py and the script's position

\* what start_worker reads and writes
start_vars == <<worker_thread, threads, starter>>

\* the state that the request handling of RequestQueue leaves alone
others == <<start_vars, session_state>>

vars == <<max_concurrent, queue, unfinished_tasks, records, add_result,
          active_requests, completed_requests, current_processing, lock,
          caller, worker, unit, others>>

\* ------------------------------------------------------------- threads
Free == <<"free">>
CallerThread == <<"caller">>
WorkerThread == <<"worker">>
UnitThread(t) == <<"unit", t>>

\* ------------------------------------------------------- dict helpers
\* d[k] = v on a Python dict
DictSet(d, k, v) == [x \in DOMAIN d \cup {k} |-> IF x = k THEN v ELSE d[x]]

\* a pop that leaves the key in place
DictPopKeep(d, k) == d

\* d.pop(k, None)
DictPop(d, k) == [x \in DOMAIN d \ {k} |-> d[x]]

EmptyDict == [x \in {} |-> 0]

\* datetime.now(): only the presence of a timestamp is modelled
Now == "datetime"

\* ------------------------------------------------- the work function
\* rag_chain.invoke({"input": query}): how the call ends.  "answers" is the
\* chain of test_add_and_process_request; "raises" raises Exception(message);
\* "exits" raises SystemExit, which is not an Exception; a chain that hangs
\* has no outcome.
Invoke(rag_chain, query) ==
    CASE rag_chain = "answers" ->
            [outcome |-> "return", value |-> <<"Response to: ", query>>]
      [] rag_chain = "raises" ->
            [outcome |-> "raise",
             value |-> [type |-> "Exception", args |-> <<<<"boom: ", query>>>>]]
      [] rag_chain = "exits" ->
            [outcome |-> "raise",
             value |-> [type |-> "SystemExit", args |-> <<<<"exit: ", query>>>>]]

\* isinstance(e, Exception)
IsException(e) == e.type = "Exception"

\* the argument tuple of the exception instead of its text
StrArgs(e) == e.args

\* str(e) of an exception built with one argument: that argument
Str(e) == e.args[1]

\* ------------------------------------------------------- session state
\* main.py 48-51: no message, no pending request; the script is at the top
\* of a run
NewSession ==
    [messages |-> <<>>, pending_requests |-> <<>>, pc |-> "loop", i |-> 1,
     request_data |-> 0]

\* ------------------------------------------------------- add_request
\* the dict built at lines 50-56
NewRequest(request_id, query, rag_chain) ==
    [id |-> request_id, query |-> query, rag_chain |-> rag_chain,
     timestamp |-> Now, status |-> "queued"]

\* a put at the head of the backlog
QueuePutFront(q, item) == <<item>> \o q

\* a backlog of one place that drops what does not fit
QueuePutBounded(q, item) == IF Len(q) >= 1 THEN q ELSE Append(q, item)

\* Queue.put: append at the tail
QueuePut(q, item) == Append(q, item)

\* return request_id
AddRequestReturn(request_id) == request_id

AddRequestAcquire ==
    /\ caller = "idle"
    /\ Len(records) < MaxTasks
    /\ lock = Free
    /\ lock' = CallerThread
    /\ caller' = "add_locked"
    /\ UNCHANGED <<others, max_concurrent, queue, unfinished_tasks, records,
                   add_result, active_requests, completed_requests,
                   current_processing, worker, unit>>

AddRequest(request_id, query, rag_chain) ==
    /\ caller = "add_locked"
    /\ lock = CallerThread
    /\ records' = Append(records, NewRequest(request_id, query, rag_chain))
    /\ active_requests' = DictSet(active_requests, request_id, Len(records) + 1)
    /\ queue' = QueuePut(queue, Len(records) + 1)
    /\ unfinished_tasks' = unfinished_tasks + 1
    /\ add_result' = Append(add_result, AddRequestReturn(request_id))
    /\ lock' = Free
    /\ caller' = "idle"
    /\ UNCHANGED <<others, max_concurrent, completed_requests, current_processing,
                   worker, unit>>

\* ------------------------------------------------ the lookup operations
None == <<>>

\* dict.get(k) on a map of record references
DictGet(d, k) == IF k \in DOMAIN d THEN records[d[k]] ELSE None

\* the truth value Python gives to a dict or to None
Truthy(x) == DOMAIN x # {}

\* get_request_status with the two maps consulted in the other order
GetRequestStatusLiveFirst(request_id) ==
    IF Truthy(DictGet(active_requests, request_id))
    THEN DictGet(active_requests, request_id)
    ELSE DictGet(completed_requests, request_id)

\* get_request_status: the finished map first, then the live map
GetRequestStatus(request_id) ==
    IF Truthy(DictGet(completed_requests, request_id))
    THEN DictGet(completed_requests, request_id)
    ELSE DictGet(active_requests, request_id)

\* the indices i (zero-based) of the backlog entries whose id is request_id
QueueIndices(request_id) ==
    {i \in 0..(Len(queue) - 1) : records[queue[i + 1]]["id"] = request_id}

Min(S) == CHOOSE x \in S : \A y \in S : x <= y

\* get_queue_position counting backlog places from one
GetQueuePositionOneBased(request_id) ==
    IF request_id \notin DOMAIN active_requests THEN -1
    ELSE LET status == records[active_requests[request_id]]["status"] IN
         IF status = "processing" THEN 0
         ELSE IF status = "queued" /\ QueueIndices(request_id) # {}
              THEN Min(QueueIndices(request_id)) + 1 + current_processing
              ELSE -1

\* get_queue_position without the processing count
GetQueuePositionBacklogOnly(request_id) ==
    IF request_id \notin DOMAIN active_requests THEN -1
    ELSE LET status == records[active_requests[request_id]]["status"] IN
         IF status = "processing" THEN 0
         ELSE IF status = "queued" /\ QueueIndices(request_id) # {}
              THEN Min(QueueIndices(request_id))
              ELSE -1

\* get_queue_position
GetQueuePosition(request_id) ==
    IF request_id \notin DOMAIN active_requests THEN -1
    ELSE LET status == records[active_requests[request_id]]["status"] IN
         IF status = "processing" THEN 0
         ELSE IF status = "queued" /\ QueueIndices(request_id) # {}
              THEN Min(QueueIndices(request_id)) + current_processing
              ELSE -1

\* get_queue_stats reporting the size of the live map as the queue size
GetQueueStatsLiveSize ==
    [queue_size |-> Cardinality(DOMAIN active_requests),
     active_count |-> Cardinality(DOMAIN active_requests),
     processing_count |-> current_processing,
     max_concurrent |-> max_concurrent]

\* get_queue_stats
GetQueueStats ==
    [queue_size |-> Len(queue),
     active_count |-> Cardinality(DOMAIN active_requests),
     processing_count |-> current_processing,
     max_concurrent |-> max_concurrent]

\* `with self.lock:` of get_request_status, get_queue_position and
\* get_queue_stats
LookupAcquire ==
    /\ caller = "idle"
    /\ lock = Free
    /\ lock' = CallerThread
    /\ caller' = "lookup_locked"
    /\ UNCHANGED <<others, max_concurrent, queue, unfinished_tasks, records,
                   add_result, active_requests, completed_requests,
                   current_processing, worker, unit>>

\* the body of a lookup: the value is computed from the state and returned,
\* nothing is assigned, the lock is released
Lookup ==
    /\ caller = "lookup_locked"
    /\ lock = CallerThread
    /\ lock' = Free
    /\ caller' = "idle"
    /\ UNCHANGED <<others, max_concurrent, queue, unfinished_tasks, records,
                   add_result, active_requests, completed_requests,
                   current_processing, worker, unit>>

\* ----------------------------------------------------- _process_queue
\* a test that lets the counter reach max_concurrent + 1
HasCapacityInclusive == current_processing <= max_concurrent

\* a dispatcher that lets one request run at a time whatever max_concurrent
HasCapacitySingle == current_processing < 1

\* the test of line 123, read without the lock
HasCapacity == current_processing < max_concurrent

\* Queue.get: the head of the backlog and what is left of it
QueueHead(q) == Head(q)

\* a get that leaves the head in the backlog
QueueRestPeek(q) == q

QueueRest(q) == Tail(q)

WorkerCheck ==
    /\ worker.pc = "check"
    /\ worker' = [worker EXCEPT !.pc = IF HasCapacity THEN "get" ELSE "sleep"]
    /\ UNCHANGED <<others, max_concurrent, queue, unfinished_tasks, records,
                   add_result, active_requests, completed_requests,
                   current_processing, lock, caller, unit>>

\* queue.get(timeout=1) returns the head
WorkerGet ==
    /\ worker.pc = "get"
    /\ queue # <<>>
    /\ worker' = [pc |-> "start", req |-> QueueHead(queue)]
    /\ queue' = QueueRest(queue)
    /\ UNCHANGED <<others, max_concurrent, unfinished_tasks, records, add_result,
                   active_requests, completed_requests, current_processing,
                   lock, caller, unit>>

\* queue.get(timeout=1) times out: Empty
WorkerEmpty ==
    /\ worker.pc = "get"
    /\ queue = <<>>
    /\ worker' = [worker EXCEPT !.pc = "sleep"]
    /\ UNCHANGED <<others, max_concurrent, queue, unfinished_tasks, records,
                   add_result, active_requests, completed_requests,
                   current_processing, lock, caller, unit>>

\* Thread(target=self._execute_rag_request, args=(req,)).start()
WorkerStart ==
    /\ worker.pc = "start"
    /\ unit' = [unit EXCEPT ![worker.req] = [pc |-> "start", result |-> None]]
    /\ worker' = [pc |-> "check", req |-> 0]
    /\ UNCHANGED <<others, max_concurrent, queue, unfinished_tasks, records,
                   add_result, active_requests, completed_requests,
                   current_processing, lock, caller>>

\* time.sleep(0.1) / time.sleep(0.5), then the next iteration
WorkerSleep ==
    /\ worker.pc = "sleep"
    /\ worker' = [worker EXCEPT !.pc = "check"]
    /\ UNCHANGED <<others, max_concurrent, queue, unfinished_tasks, records,
                   add_result, active_requests, completed_requests,
                   current_processing, lock, caller, unit>>

\* ----------------------------------------------- _execute_rag_request
\* the positions at which an execution unit waits for self.lock
WaitsForLock == {"start", "returned", "raised", "finally"}

Locked(pc) ==
    CASE pc = "start" -> "start_locked"
      [] pc = "returned" -> "completed_locked"
      [] pc = "raised" -> "error_locked"
      [] pc = "finally" -> "finally_locked"

UnitAcquire(t) ==
    /\ unit[t].pc \in WaitsForLock
    /\ lock = Free
    /\ lock' = UnitThread(t)
    /\ unit' = [unit EXCEPT ![t].pc = Locked(unit[t].pc)]
    /\ UNCHANGED <<others, max_concurrent, queue, unfinished_tasks, records,
                   add_result, active_requests, completed_requests,
                   current_processing, caller, worker>>

\* a start that also initialises the response field
ProcessingRecordWithResponse(req) ==
    DictSet(DictSet(DictSet(req, "status", "processing"), "start_time", Now),
            "response", None)

\* lines 144-145
ProcessingRecord(req) ==
    DictSet(DictSet(req, "status", "processing"), "start_time", Now)

\* the first block kept open over the call of line 150
LockHeldIntoInvoke(t) == UnitThread(t)

\* the owner of the lock when the block of lines 142-145 is left
LockAfterProcessing(t) == Free

\* lines 142-145
UnitProcessing(t) ==
    /\ unit[t].pc = "start_locked"
    /\ lock = UnitThread(t)
    /\ current_processing' = current_processing + 1
    /\ records' = [records EXCEPT ![t] = ProcessingRecord(records[t])]
    /\ lock' = LockAfterProcessing(t)
    /\ unit' = [unit EXCEPT ![t].pc = "invoke"]
    /\ UNCHANGED <<others, max_concurrent, queue, unfinished_tasks, add_result,
                   active_requests, completed_requests, caller, worker>>

\* the decrement placed after the try statement instead of in its finally
\* clause: an exception the handler does not catch ends the thread
AfterInvokeNoFinally(res) ==
    CASE res.outcome = "return" -> "returned"
      [] res.outcome = "raise" /\ IsException(res.value) -> "raised"
      [] res.outcome = "raise" /\ ~IsException(res.value) -> "done"

\* where control goes when invoke has ended: past the call (line 152), to
\* the handler of line 161, or straight to the finally clause
AfterInvoke(res) ==
    CASE res.outcome = "return" -> "returned"
      [] res.outcome = "raise" /\ IsException(res.value) -> "raised"
      [] res.outcome = "raise" /\ ~IsException(res.value) -> "finally"

\* line 150: the call ends, by a return or by an exception
UnitInvoke(t) ==
    /\ unit[t].pc = "invoke"
    /\ records[t]["rag_chain"] # "hangs"
    /\ LET res == Invoke(records[t]["rag_chain"], records[t]["query"]) IN
       unit' = [unit EXCEPT ![t] = [pc |-> AfterInvoke(res),
                                    result |-> res.value]]
    /\ UNCHANGED <<others, max_concurrent, queue, unfinished_tasks, records,
                   add_result, active_requests, completed_requests,
                   current_processing, lock, caller, worker>>

\* a completion that stores the query in place of the response
CompletedRecordQuery(req, resp) ==
    DictSet(DictSet(DictSet(req, "status", "completed"),
                    "response", req["query"]), "end_time", Now)

\* lines 153-155
CompletedRecord(req, resp) ==
    DictSet(DictSet(DictSet(req, "status", "completed"),
                    "response", resp), "end_time", Now)

\* lines 152-157
UnitCompleted(t) ==
    /\ unit[t].pc = "completed_locked"
    /\ lock = UnitThread(t)
    /\ records' = [records EXCEPT
                     ![t] = CompletedRecord(records[t], unit[t].result)]
    /\ completed_requests' = DictSet(completed_requests, records[t]["id"], t)
    /\ active_requests' = DictPop(active_requests, records[t]["id"])
    /\ lock' = Free
    /\ unit' = [unit EXCEPT ![t].pc = "finally"]
    /\ UNCHANGED <<others, max_concurrent, queue, unfinished_tasks, add_result,
                   current_processing, caller, worker>>

\* a failure that puts the record back to 'queued'
ErrorRecordRequeue(req, e) ==
    DictSet(DictSet(req, "status", "queued"), "error", Str(e))

\* lines 163-164
ErrorRecord(req, e) ==
    DictSet(DictSet(req, "status", "error"), "error", Str(e))

\* lines 162-166
UnitError(t) ==
    /\ unit[t].pc = "error_locked"
    /\ lock = UnitThread(t)
    /\ records' = [records EXCEPT ![t] = ErrorRecord(records[t], unit[t].result)]
    /\ completed_requests' = DictSet(completed_requests, records[t]["id"], t)
    /\ active_requests' = DictPop(active_requests, records[t]["id"])
    /\ lock' = Free
    /\ unit' = [unit EXCEPT ![t].pc = "finally"]
    /\ UNCHANGED <<others, max_concurrent, queue, unfinished_tasks, add_result,
                   current_processing, caller, worker>>

\* lines 171-172
UnitFinally(t) ==
    /\ unit[t].pc = "finally_locked"
    /\ lock = UnitThread(t)
    /\ current_processing' = current_processing - 1
    /\ lock' = Free
    /\ unit' = [unit EXCEPT ![t].pc = "task_done"]
    /\ UNCHANGED <<others, max_concurrent, queue, unfinished_tasks, records,
                   add_result, active_requests, completed_requests,
                   caller, worker>>

\* line 173
UnitTaskDone(t) ==
    /\ unit[t].pc = "task_done"
    /\ unfinished_tasks' = unfinished_tasks - 1
    /\ unit' = [unit EXCEPT ![t].pc = "done"]
    /\ UNCHANGED <<others, max_concurrent, queue, records, add_result,
                   active_requests, completed_requests, current_processing,
                   lock, caller, worker>>

\* ------------------------------------------------------- start_worker
\* thread 0 is the one that runs __init__, the others call start_worker
\* once the constructor has returned
Starters == 0..MaxStarters

Constructed == starter[0] = "returned"

\* an is_alive() that never sees the thread running
IsAliveNever(th) == FALSE

\* Thread.is_alive(): true from the return of start() on; _process_queue
\* never returns
IsAlive(th) == threads[th] = "alive"

\* the test of line 33
NeedsWorker == worker_thread = 0 \/ ~IsAlive(worker_thread)

DispatcherRuns == \E th \in 1..Len(threads) : threads[th] = "alive"

\* a call of start_worker from outside
StartWorkerCall(c) ==
    /\ c # 0
    /\ Constructed
    /\ starter[c] \in {"idle", "returned"}
    /\ starter' = [starter EXCEPT ![c] = "check"]
    /\ UNCHANGED <<max_concurrent, queue, unfinished_tasks, records,
                   add_result, active_requests, completed_requests,
                   current_processing, lock, caller, worker, unit,
                   worker_thread, threads, session_state>>

\* line 33
StartWorkerCheck(c) ==
    /\ starter[c] = "check"
    /\ starter' = [starter EXCEPT ![c] = IF NeedsWorker THEN "create"
                                                     ELSE "returned"]
    /\ UNCHANGED <<max_concurrent, queue, unfinished_tasks, records,
                   add_result, active_requests, completed_requests,
                   current_processing, lock, caller, worker, unit,
                   worker_thread, threads, session_state>>

\* line 34: self.worker_thread = Thread(target=self._process_queue, ...)
StartWorkerCreate(c) ==
    /\ starter[c] = "create"
    /\ threads' = Append(threads, "created")
    /\ worker_thread' = Len(threads) + 1
    /\ starter' = [starter EXCEPT ![c] = "start"]
    /\ UNCHANGED <<max_concurrent, queue, unfinished_tasks, records,
                   add_result, active_requests, completed_requests,
                   current_processing, lock, caller, worker, unit,
                   session_state>>

\* line 35: self.worker_thread.start(); a thread is started once, a second
\* start() raises RuntimeError
StartWorkerStart(c) ==
    /\ starter[c] = "start"
    /\ IF threads[worker_thread] = "created"
       THEN /\ threads' = [threads EXCEPT ![worker_thread] = "alive"]
            /\ starter' = [starter EXCEPT ![c] = "returned"]
       ELSE /\ threads' = threads
            /\ starter' = [starter EXCEPT ![c] = "raised"]
    /\ UNCHANGED <<max_concurrent, queue, unfinished_tasks, records,
                   add_result, active_requests, completed_requests,
                   current_processing, lock, caller, worker, unit,
                   worker_thread, session_state>>

\* ------------------------------------------------------- main.py script
\* The Streamlit script of main.py, run again and again on one session:
\* the loop over the pending requests (lines 322-343), the chat input
\* (346-363) and the polling step (366-390), which only displays and
\* reruns.  The queue it calls is RequestQueue above.
Pending == session_state.pending_requests

\* the record get_request_status returns, as a reference (0 for None)
StatusRef(request_id) ==
    IF Truthy(DictGet(completed_requests, request_id))
    THEN completed_requests[request_id]
    ELSE IF request_id \in DOMAIN active_requests
         THEN active_requests[request_id] ELSE 0

\* line 329: the message built from the response
AnswerMessage(request_data) ==
    [role |-> "assistant", content |-> <<"answer", request_data["response"]>>,
     is_error |-> FALSE]

\* request_data.get("error", "Unknown error")
ErrorText(request_data) ==
    IF "error" \in DOMAIN request_data THEN request_data["error"]
    ELSE "Unknown error"

\* lines 339-340
ErrorMessage(request_data) ==
    [role |-> "assistant", content |-> <<"Error: ", ErrorText(request_data)>>,
     is_error |-> TRUE]

\* line 353
UserMessage(prompt) ==
    [role |-> "user", content |-> prompt, is_error |-> FALSE]

\* del pending_requests[request_id]
Delete(seq, i) == [k \in 1..(Len(seq) - 1) |-> IF k < i THEN seq[k] ELSE seq[k + 1]]

Prompts ==
    Cardinality({k \in 1..Len(session_state.messages) :
                    session_state.messages[k].role = "user"})

\* line 323: get_request_status takes the lock
UiStatusAcquire ==
    /\ session_state.pc = "loop"
    /\ session_state.i <= Len(Pending)
    /\ caller = "idle"
    /\ lock = Free
    /\ lock' = CallerThread
    /\ caller' = "lookup_locked"
    /\ session_state' = [session_state EXCEPT !.pc = "status"]
    /\ UNCHANGED <<max_concurrent, queue, unfinished_tasks, records,
                   add_result, active_requests, completed_requests,
                   current_processing, worker, unit, start_vars>>

\* line 323: get_request_status returns the record
UiStatus ==
    /\ session_state.pc = "status"
    /\ caller = "lookup_locked"
    /\ lock = CallerThread
    /\ lock' = Free
    /\ caller' = "idle"
    /\ session_state' =
          [session_state EXCEPT
              !.pc = "handle",
              !.request_data = StatusRef(Pending[session_state.i])]
    /\ UNCHANGED <<max_concurrent, queue, unfinished_tasks, records,
                   add_result, active_requests, completed_requests,
                   current_processing, worker, unit, start_vars>>

\* lines 325-343: the fields are read from the record as it is now; a
\* finished request gets its message, leaves pending_requests and the
\* script reruns; otherwise the loop goes on
UiHandle ==
    /\ session_state.pc = "handle"
    /\ LET ref == session_state.request_data
           status == IF ref = 0 THEN "none" ELSE records[ref]["status"]
       IN  session_state' =
             IF status = "completed"
             THEN [session_state EXCEPT
                     !.messages = Append(@, AnswerMessage(records[ref])),
                     !.pending_requests = Delete(@, session_state.i),
                     !.pc = "loop", !.i = 1, !.request_data = 0]
             ELSE IF status = "error"
             THEN [session_state EXCEPT
                     !.messages = Append(@, ErrorMessage(records[ref])),
                     !.pending_requests = Delete(@, session_state.i),
                     !.pc = "loop", !.i = 1, !.request_data = 0]
             ELSE [session_state EXCEPT
                     !.pc = "loop", !.i = @ + 1, !.request_data = 0]
    /\ UNCHANGED <<max_concurrent, queue, unfinished_tasks, records,
                   add_result, active_requests, completed_requests,
                   current_processing, lock, caller, worker, unit, start_vars>>

\* the loop of line 322 is over
UiLoopEnd ==
    /\ session_state.pc = "loop"
    /\ session_state.i > Len(Pending)
    /\ session_state' = [session_state EXCEPT !.pc = "chat"]
    /\ UNCHANGED <<max_concurrent, queue, unfinished_tasks, records,
                   add_result, active_requests, completed_requests,
                   current_processing, lock, caller, worker, unit, start_vars>>

\* no prompt: the polling step (lines 366-390) displays and the script
\* runs again
UiRerun ==
    /\ session_state.pc = "chat"
    /\ session_state' = [session_state EXCEPT !.pc = "loop", !.i = 1]
    /\ UNCHANGED <<max_concurrent, queue, unfinished_tasks, records,
                   add_result, active_requests, completed_requests,
                   current_processing, lock, caller, worker, unit, start_vars>>

\* lines 346-353: a prompt was typed
UiPrompt ==
    /\ session_state.pc = "chat"
    /\ Len(records) < MaxTasks
    /\ session_state' =
          [session_state EXCEPT
              !.messages = Append(@, UserMessage(Query(Len(records) + 1))),
              !.pc = "adding"]
    /\ UNCHANGED <<max_concurrent, queue, unfinished_tasks, records,
                   add_result, active_requests, completed_requests,
                   current_processing, lock, caller, worker, unit, start_vars>>

\* lines 355-360: add_request takes the lock
UiAddAcquire ==
    /\ session_state.pc = "adding"
    /\ Len(add_result) < Prompts
    /\ caller = "idle"
    /\ lock = Free
    /\ lock' = CallerThread
    /\ caller' = "add_locked"
    /\ UNCHANGED <<max_concurrent, queue, unfinished_tasks, records,
                   add_result, active_requests, completed_requests,
                   current_processing, worker, unit, others>>

\* lines 361-363: add_request has returned
UiPending ==
    /\ session_state.pc = "adding"
    /\ Len(add_result) = Prompts
    /\ caller = "idle"
    /\ session_state' =
          [session_state EXCEPT
              !.pending_requests = Append(@, add_result[Len(add_result)]),
              !.pc = "loop", !.i = 1]
    /\ UNCHANGED <<max_concurrent, queue, unfinished_tasks, records,
                   add_result, active_requests, completed_requests,
                   current_processing, lock, caller, worker, unit, start_vars>>

\* ------------------------------------------------------ specification
\* a constructor that starts the counter at one
InitCountingFromOne ==
    /\ max_concurrent \in -1..MaxConcurrent
    /\ queue = <<>>
    /\ unfinished_tasks = 0
    /\ records = <<>>
    /\ add_result = <<>>
    /\ active_requests = EmptyDict
    /\ completed_requests = EmptyDict
    /\ current_processing = 1
    /\ lock = Free
    /\ caller = "idle"
    /\ worker = [pc |-> "check", req |-> 0]
    /\ unit = [t \in 1..MaxTasks |-> [pc |-> "unborn", result |-> None]]
    /\ worker_thread = 1
    /\ threads = <<"alive">>
    /\ starter = [c \in Starters |-> IF c = 0 THEN "returned" ELSE "idle"]
    /\ session_state = NewSession

\* RequestQueue.__init__
Init ==
    /\ max_concurrent \in -1..MaxConcurrent
    /\ queue = <<>>
    /\ unfinished_tasks = 0
    /\ records = <<>>
    /\ add_result = <<>>
    /\ active_requests = EmptyDict
    /\ completed_requests = EmptyDict
    /\ current_processing = 0
    /\ lock = Free
    /\ caller = "idle"
    /\ worker = [pc |-> "check", req |-> 0]
    /\ unit = [t \in 1..MaxTasks |-> [pc |-> "unborn", result |-> None]]
    /\ worker_thread = 1
    /\ threads = <<"alive">>
    /\ starter = [c \in Starters |-> IF c = 0 THEN "returned" ELSE "idle"]
    /\ session_state = NewSession

Next ==
    \/ AddRequestAcquire
    \/ \E request_id \in Ids, rag_chain \in RagChains :
          AddRequest(request_id, Query(Len(records) + 1), rag_chain)
    \/ LookupAcquire
    \/ Lookup
    \/ WorkerCheck
    \/ WorkerGet
    \/ WorkerEmpty
    \/ WorkerStart
    \/ WorkerSleep
    \/ \E t \in 1..MaxTasks : UnitAcquire(t)
    \/ \E t \in 1..MaxTasks : UnitProcessing(t)
    \/ \E t \in 1..MaxTasks : UnitInvoke(t)
    \/ \E t \in 1..MaxTasks : UnitCompleted(t)
    \/ \E t \in 1..MaxTasks : UnitError(t)
    \/ \E t \in 1..MaxTasks : UnitFinally(t)
    \/ \E t \in 1..MaxTasks : UnitTaskDone(t)

Spec == Init /\ [][Next]_vars

\* Fair scheduling: the dispatcher and every execution unit keep running,
\* a thread that asks for the lock again and again gets it, and a caller
\* inside add_request finishes the call.
WorkerStep == WorkerCheck \/ WorkerGet \/ WorkerEmpty \/ WorkerStart \/ WorkerSleep

UnitStep(t) ==
    \/ UnitProcessing(t) \/ UnitInvoke(t) \/ UnitCompleted(t)
    \/ UnitError(t) \/ UnitFinally(t) \/ UnitTaskDone(t)

CallerStep ==
    \/ \E request_id \in Ids, rag_chain \in RagChains :
          AddRequest(request_id, Query(Len(records) + 1), rag_chain)
    \/ Lookup

Fairness ==
    /\ WF_vars(WorkerStep)
    /\ WF_vars(CallerStep)
    /\ \A t \in 1..MaxTasks : SF_vars(UnitAcquire(t)) /\ WF_vars(UnitStep(t))

FairSpec == Spec /\ Fairness

\* The construction and the start_worker calls that follow it, with the
\* dispatcher running on an empty backlog.
\* __init__ up to line 28: no dispatcher thread yet
StartInit ==
    /\ max_concurrent \in -1..MaxConcurrent
    /\ queue = <<>>
    /\ unfinished_tasks = 0
    /\ records = <<>>
    /\ add_result = <<>>
    /\ active_requests = EmptyDict
    /\ completed_requests = EmptyDict
    /\ current_processing = 0
    /\ lock = Free
    /\ caller = "idle"
    /\ worker = [pc |-> "check", req |-> 0]
    /\ unit = [t \in 1..MaxTasks |-> [pc |-> "unborn", result |-> None]]
    /\ worker_thread = 0
    /\ threads = <<>>
    /\ starter = [c \in Starters |-> IF c = 0 THEN "check" ELSE "idle"]
    /\ session_state = NewSession

StartNext ==
    \/ \E c \in Starters : StartWorkerCall(c)
    \/ \E c \in Starters : StartWorkerCheck(c)
    \/ \E c \in Starters : StartWorkerCreate(c)
    \/ \E c \in Starters : StartWorkerStart(c)
    \/ DispatcherRuns /\ LookupAcquire
    \/ DispatcherRuns /\ Lookup
    \/ DispatcherRuns /\ WorkerCheck
    \/ DispatcherRuns /\ WorkerEmpty
    \/ DispatcherRuns /\ WorkerSleep

StartSpec == StartInit /\ [][StartNext]_vars

\* A caller that never reuses an id, as main.py builds its ids
\* (request_id = f"req_{int(time.time() * 1000)}"), and that keeps
\* submitting until MaxTasks requests have been added.
FreshId(t) == "req_" \o ToString(t)

UniqueAddRequest ==
    \E rag_chain \in RagChains :
        AddRequest(FreshId(Len(records) + 1), Query(Len(records) + 1), rag_chain)

UniqueNext ==
    \/ AddRequestAcquire
    \/ UniqueAddRequest
    \/ LookupAcquire
    \/ Lookup
    \/ WorkerCheck
    \/ WorkerGet
    \/ WorkerEmpty
    \/ WorkerStart
    \/ WorkerSleep
    \/ \E t \in 1..MaxTasks : UnitAcquire(t)
    \/ \E t \in 1..MaxTasks : UnitProcessing(t)
    \/ \E t \in 1..MaxTasks : UnitInvoke(t)
    \/ \E t \in 1..MaxTasks : UnitCompleted(t)
    \/ \E t \in 1..MaxTasks : UnitError(t)
    \/ \E t \in 1..MaxTasks : UnitFinally(t)
    \/ \E t \in 1..MaxTasks : UnitTaskDone(t)

UniqueFairness ==
    /\ WF_vars(WorkerStep)
    /\ WF_vars(UniqueAddRequest \/ Lookup)
    /\ SF_vars(AddRequestAcquire)
    /\ \A t \in 1..MaxTasks : SF_vars(UnitAcquire(t)) /\ WF_vars(UnitStep(t))

UniqueFairSpec == Init /\ [][UniqueNext]_vars /\ UniqueFairness

\* The script of main.py as the only caller of the queue.
UiNext ==
    \/ UiStatusAcquire
    \/ UiStatus
    \/ UiHandle
    \/ UiLoopEnd
    \/ UiRerun
    \/ UiPrompt
    \/ UiAddAcquire
    \/ UniqueAddRequest
    \/ UiPending
    \/ WorkerCheck
    \/ WorkerGet
    \/ WorkerEmpty
    \/ WorkerStart
    \/ WorkerSleep
    \/ \E t \in 1..MaxTasks : UnitAcquire(t)
    \/ \E t \in 1..MaxTasks : UnitProcessing(t)
    \/ \E t \in 1..MaxTasks : UnitInvoke(t)
    \/ \E t \in 1..MaxTasks : UnitCompleted(t)
    \/ \E t \in 1..MaxTasks : UnitError(t)
    \/ \E t \in 1..MaxTasks : UnitFinally(t)
    \/ \E t \in 1..MaxTasks : UnitTaskDone(t)

\* the script keeps running, gets the lock when it asks for it again and
\* again, and the user types MaxTasks prompts
UiFairness ==
    /\ WF_vars(WorkerStep)
    /\ WF_vars(UiStatus \/ UiHandle \/ UiLoopEnd \/ UiRerun
                  \/ UniqueAddRequest \/ UiPending)
    /\ SF_vars(UiStatusAcquire)
    /\ SF_vars(UiAddAcquire)
    /\ SF_vars(UiPrompt)
    /\ \A t \in 1..MaxTasks : SF_vars(UnitAcquire(t)) /\ WF_vars(UnitStep(t))

UiFairSpec == Init /\ [][UiNext]_vars /\ UiFairness

\* A caller that submits every request under the same id: add_request does
\* not look at the maps before it stores the record.
ResubmitAddRequest ==
    \E rag_chain \in RagChains :
        AddRequest("r1", Query(Len(records) + 1), rag_chain)

ResubmitNext ==
    \/ AddRequestAcquire
    \/ ResubmitAddRequest
    \/ LookupAcquire
    \/ Lookup
    \/ WorkerCheck
    \/ WorkerGet
    \/ WorkerEmpty
    \/ WorkerStart
    \/ WorkerSleep
    \/ \E t \in 1..MaxTasks : UnitAcquire(t)
    \/ \E t \in 1..MaxTasks : UnitProcessing(t)
    \/ \E t \in 1..MaxTasks : UnitInvoke(t)
    \/ \E t \in 1..MaxTasks : UnitCompleted(t)
    \/ \E t \in 1..MaxTasks : UnitError(t)
    \/ \E t \in 1..MaxTasks : UnitFinally(t)
    \/ \E t \in 1..MaxTasks : UnitTaskDone(t)

ResubmitFairness ==
    /\ WF_vars(WorkerStep)
    /\ WF_vars(ResubmitAddRequest \/ Lookup)
    /\ SF_vars(AddRequestAcquire)
    /\ \A t \in 1..MaxTasks : SF_vars(UnitAcquire(t)) /\ WF_vars(UnitStep(t))

ResubmitFairSpec == Init /\ [][ResubmitNext]_vars /\ ResubmitFairness

\* The locked blocks of lines 152-157 and 162-166 statement by statement,
\* as a thread sees them that reads a record's fields without the lock
\* (main.py reads request_data['status'] and request_data['response'] after
\* get_request_status has returned): the status is assigned first.
\* line 153
UnitCompletedStatus(t) ==
    /\ unit[t].pc = "completed_locked"
    /\ lock = UnitThread(t)
    /\ records' = [records EXCEPT ![t] = DictSet(records[t], "status", "completed")]
    /\ unit' = [unit EXCEPT ![t].pc = "completed_status"]
    /\ UNCHANGED <<others, max_concurrent, queue, unfinished_tasks, add_result,
                   active_requests, completed_requests, current_processing,
                   lock, caller, worker>>

\* lines 154-157
UnitCompletedFields(t) ==
    /\ unit[t].pc = "completed_status"
    /\ lock = UnitThread(t)
    /\ records' = [records EXCEPT
                     ![t] = DictSet(DictSet(records[t], "response", unit[t].result),
                                    "end_time", Now)]
    /\ completed_requests' = DictSet(completed_requests, records[t]["id"], t)
    /\ active_requests' = DictPop(active_requests, records[t]["id"])
    /\ lock' = Free
    /\ unit' = [unit EXCEPT ![t].pc = "finally"]
    /\ UNCHANGED <<others, max_concurrent, queue, unfinished_tasks, add_result,
                   current_processing, caller, worker>>

\* line 163
UnitErrorStatus(t) ==
    /\ unit[t].pc = "error_locked"
    /\ lock = UnitThread(t)
    /\ records' = [records EXCEPT ![t] = DictSet(records[t], "status", "error")]
    /\ unit' = [unit EXCEPT ![t].pc = "error_status"]
    /\ UNCHANGED <<others, max_concurrent, queue, unfinished_tasks, add_result,
                   active_requests, completed_requests, current_processing,
                   lock, caller, worker>>

\* lines 164-166
UnitErrorFields(t) ==
    /\ unit[t].pc = "error_status"
    /\ lock = UnitThread(t)
    /\ records' = [records EXCEPT
                     ![t] = DictSet(records[t], "error", Str(unit[t].result))]
    /\ completed_requests' = DictSet(completed_requests, records[t]["id"], t)
    /\ active_requests' = DictPop(active_requests, records[t]["id"])
    /\ lock' = Free
    /\ unit' = [unit EXCEPT ![t].pc = "finally"]
    /\ UNCHANGED <<others, max_concurrent, queue, unfinished_tasks, add_result,
                   current_processing, caller, worker>>

FieldNext ==
    \/ AddRequestAcquire
    \/ UniqueAddRequest
    \/ LookupAcquire
    \/ Lookup
    \/ WorkerCheck
    \/ WorkerGet
    \/ WorkerEmpty
    \/ WorkerStart
    \/ WorkerSleep
    \/ \E t \in 1..MaxTasks : UnitAcquire(t)
    \/ \E t \in 1..MaxTasks : UnitProcessing(t)
    \/ \E t \in 1..MaxTasks : UnitInvoke(t)
    \/ \E t \in 1..MaxTasks : UnitCompletedStatus(t)
    \/ \E t \in 1..MaxTasks : UnitCompletedFields(t)
    \/ \E t \in 1..MaxTasks : UnitErrorStatus(t)
    \/ \E t \in 1..MaxTasks : UnitErrorFields(t)
    \/ \E t \in 1..MaxTasks : UnitFinally(t)
    \/ \E t \in 1..MaxTasks : UnitTaskDone(t)

FieldSpec == Init /\ [][FieldNext]_vars

\* ------------------------------------------------------------ vocabulary
Tasks == 1..Len(records)

Status(t) == records[t]["status"]

Terminal(t) == Status(t) \in {"completed", "error"}

\* the number of add_request calls made so far with this id
Submissions(request_id) ==
    Cardinality({t \in Tasks : records[t]["id"] = request_id})

\* no id has been passed to add_request twice
DistinctIds == \A request_id \in Ids : Submissions(request_id) <= 1

ProcessingCount == Cardinality({t \in Tasks : Status(t) = "processing"})

\* ------------------------------------------------------------------ C1
\* C1: with max_concurrent = N >= 1, the number of records whose status is
\* 'processing', and current_processing, are at most N in every reachable
\* state.  The dispatcher reads current_processing before the execution
\* unit it has just started has incremented it, so it can start a second
\* unit; the statement is violated.
C1_AtMostNProcessing ==
    max_concurrent >= 1 =>
        /\ ProcessingCount <= max_concurrent
        /\ current_processing <= max_concurrent

\* ------------------------------------------------------------------ C2
\* C2: FIFO dispatch.  For tasks A and B with distinct ids, A submitted
\* before B, A's record leaves 'queued' for 'processing' no later than B's:
\* there is no state in which B's record has left 'queued' and A's has not.
\* The status is set by the execution units, which race for the lock after
\* the dispatcher has started them; the statement is violated.
C2_FifoDispatch ==
    (max_concurrent >= 1 /\ DistinctIds) =>
        \A a \in Tasks, b \in Tasks :
            (a < b /\ Status(b) # "queued") => Status(a) # "queued"

\* ------------------------------------------------------------------ C3
\* no work function passed so far is one that never returns
NoHangingChain == \A t \in Tasks : records[t]["rag_chain"] # "hangs"

\* C3: liveness.  With max_concurrent >= 1, fair scheduling and work
\* functions that all return or raise, every submitted task eventually
\* reaches 'completed' or 'error'.  A work function that raises an exception
\* which is not an Exception (SystemExit) leaves its record in 'processing'
\* for ever; the statement is violated.
C3_EventuallyTerminal ==
    ([]NoHangingChain /\ [](max_concurrent >= 1)) =>
        \A t \in 1..MaxTasks : [](t \in Tasks => <>(t \in Tasks /\ Terminal(t)))

\* the same with work functions that return or raise an Exception: holds
C3_EventuallyTerminalOrdinary ==
    ([](\A t \in Tasks : records[t]["rag_chain"] \in {"answers", "raises"})
        /\ [](max_concurrent >= 1)) =>
        \A t \in 1..MaxTasks : [](t \in Tasks => <>(t \in Tasks /\ Terminal(t)))

\* ------------------------------------------------------------------ C4
AllowedTransitions ==
    {<<"queued", "processing">>, <<"processing", "completed">>,
     <<"processing", "error">>}

\* C4: the status of every record only moves queued -> processing ->
\* completed or queued -> processing -> error; a new record starts 'queued'.
C4_StatusTransitions ==
    [][/\ \A t \in Tasks :
             Status(t)' # Status(t) =>
                 <<Status(t), Status(t)'>> \in AllowedTransitions
       /\ \A t \in Tasks' \ Tasks : Status(t)' = "queued"]_vars

\* both terminal statuses have been reached through 'processing'
C4_Witness ==
    /\ \E t \in Tasks : Status(t) = "completed" /\ "start_time" \in DOMAIN records[t]
    /\ \E t \in Tasks : Status(t) = "error" /\ "start_time" \in DOMAIN records[t]

\* ------------------------------------------------------------------ C5
\* get_request_status(id) returns a record in a terminal status
TerminalRead(request_id) ==
    /\ Truthy(GetRequestStatus(request_id))
    /\ GetRequestStatus(request_id)["status"] \in {"completed", "error"}

\* C5: idempotent terminal read.  For an id submitted once, when
\* get_request_status(id) returns a record in status 'completed' or 'error',
\* the call returns the same record (status, response, error) after every
\* further step of any thread.
C5_IdempotentTerminalRead ==
    [][\A request_id \in Ids :
          (Submissions(request_id)' <= 1 /\ TerminalRead(request_id)) =>
              GetRequestStatus(request_id)' = GetRequestStatus(request_id)]_vars

\* a terminal record is read after its execution unit has ended, while
\* another task is still live
C5_Witness ==
    \E t \in Tasks, u \in Tasks :
        /\ Submissions(records[t]["id"]) = 1
        /\ TerminalRead(records[t]["id"])
        /\ unit[t].pc = "done"
        /\ Status(u) = "processing"

\* ------------------------------------------------------------------ C6
InLive(request_id) ==
    /\ request_id \in DOMAIN active_requests
    /\ records[active_requests[request_id]]["status"] \in {"queued", "processing"}

InFinished(request_id) ==
    /\ request_id \in DOMAIN completed_requests
    /\ records[completed_requests[request_id]]["status"] \in {"completed", "error"}

\* C6: while the submitted ids are distinct, every submitted id is a key
\* of exactly one of active_requests (record 'queued' or 'processing') and
\* completed_requests (record 'completed' or 'error'), and an id that is a
\* key of completed_requests is never again a key of active_requests.
C6_ExactlyOneMap ==
    /\ [](DistinctIds =>
            \A request_id \in Ids :
                Submissions(request_id) = 1 =>
                    /\ (request_id \in DOMAIN active_requests)
                           # (request_id \in DOMAIN completed_requests)
                    /\ InLive(request_id) # InFinished(request_id))
    /\ [][DistinctIds' =>
            \A request_id \in DOMAIN completed_requests :
                request_id \notin DOMAIN active_requests']_vars

\* one id has moved to the finished map while another is in the live map
C6_Witness ==
    /\ DistinctIds
    /\ \E a \in Ids, b \in Ids :
          /\ InFinished(a) /\ a \notin DOMAIN active_requests
          /\ InLive(b) /\ b \notin DOMAIN completed_requests

\* ------------------------------------------------------------------ C7
\* C7: round trip.  When get_request_status(id) returns a record in status
\* 'completed', the record's work function has returned and the record's
\* response is the value it returned for the record's query; every
\* add_request call returned the id it was given.
C7_RoundTrip ==
    /\ \A request_id \in Ids :
          LET r == GetRequestStatus(request_id) IN
          (Truthy(r) /\ r["status"] = "completed") =>
              /\ Invoke(r["rag_chain"], r["query"]).outcome = "return"
              /\ "response" \in DOMAIN r
              /\ r["response"] = Invoke(r["rag_chain"], r["query"]).value
              /\ r["id"] = request_id
    /\ \A t \in Tasks : add_result[t] = records[t]["id"]

\* two completed tasks are read back, each with its own response
C7_Witness ==
    \E a \in Ids, b \in Ids :
        /\ a # b
        /\ Truthy(GetRequestStatus(a)) /\ GetRequestStatus(a)["status"] = "completed"
        /\ Truthy(GetRequestStatus(b)) /\ GetRequestStatus(b)["status"] = "completed"

\* ------------------------------------------------------------------ C8
\* the execution unit of t is past its except clause
PastHandlers(t) == unit[t].pc \in {"finally", "finally_locked", "task_done", "done"}

\* the work function of t raises an Exception
RaisesException(t) ==
    /\ records[t]["rag_chain"] # "hangs"
    /\ Invoke(records[t]["rag_chain"], records[t]["query"]).outcome = "raise"
    /\ IsException(Invoke(records[t]["rag_chain"], records[t]["query"]).value)

\* the message of the exception the work function of t raises
Message(t) == Invoke(records[t]["rag_chain"], records[t]["query"]).value.args[1]

TaskOf(request_id) == CHOOSE t \in Tasks : records[t]["id"] = request_id

\* C9 as stated: get_queue_position(id) returns 0 if and only if the task
\* with that id has status 'processing' (ids submitted once).  A 'queued'
\* task at the head of the backlog gets 0 when nothing is being processed;
\* the statement is violated.
C9_ZeroIffProcessing ==
    \A request_id \in Ids :
        Submissions(request_id) = 1 =>
            (GetQueuePosition(request_id) = 0
                <=> Status(TaskOf(request_id)) = "processing")

\* C9, amended: for an id submitted once, get_queue_position(id) returns 0
\* if and only if its task has status 'processing', or has status 'queued',
\* is at the head of the backlog and current_processing is 0.
C9_ZeroIffProcessingOrIdleHead ==
    \A request_id \in Ids :
        Submissions(request_id) = 1 =>
            (GetQueuePosition(request_id) = 0
                <=> \/ Status(TaskOf(request_id)) = "processing"
                    \/ /\ Status(TaskOf(request_id)) = "queued"
                       /\ queue # <<>>
                       /\ Head(queue) = TaskOf(request_id)
                       /\ current_processing = 0)

\* position 0 is returned for a 'queued' task at the head of the backlog
\* while nothing is being processed, and 1 for the task queued behind it
C9_Witness ==
    \E a \in Ids, b \in Ids :
        /\ Submissions(a) = 1 /\ Submissions(b) = 1
        /\ Status(TaskOf(a)) = "queued" /\ GetQueuePosition(a) = 0
        /\ Status(TaskOf(b)) = "queued" /\ GetQueuePosition(b) = 1

\* ----------------------------------------------------------------- C10
\* C10: get_queue_position(id) returns -1 if and only if the id was never
\* submitted or its task is in a terminal status (ids submitted at most
\* once); so it is >= 0 for every 'queued' or 'processing' task.  Between
\* the dispatcher's queue.get and the execution unit's first locked block
\* the task is 'queued' and in no backlog place, and the call returns -1;
\* the statement is violated.
C10_MinusOneIffUnknownOrTerminal ==
    \A request_id \in Ids :
        Submissions(request_id) <= 1 =>
            (GetQueuePosition(request_id) = -1
                <=> \/ Submissions(request_id) = 0
                    \/ Terminal(TaskOf(request_id)))

\* ----------------------------------------------------------------- C11
\* C11: for a task with status 'queued' that is in the backlog at
\* zero-based index i, its id submitted once, get_queue_position(id)
\* returns i + current_processing.
C11_QueuedPosition ==
    \A i \in 0..(Len(queue) - 1) :
        LET t == queue[i + 1] IN
        (Status(t) = "queued" /\ Submissions(records[t]["id"]) = 1) =>
            GetQueuePosition(records[t]["id"]) = i + current_processing

\* max_concurrent = 2, one task processing, another at the head of the
\* backlog: its position is 1
C11_Witness ==
    /\ max_concurrent = 2
    /\ current_processing = 1
    /\ ProcessingCount = 1
    /\ queue # <<>>
    /\ Status(Head(queue)) = "queued"
    /\ Submissions(records[Head(queue)]["id"]) = 1
    /\ GetQueuePosition(records[Head(queue)]["id"]) = 1

\* ----------------------------------------------------------------- C12
\* the execution unit of t is inside a work function that never returns
Stuck(t) == unit[t].pc = "invoke" /\ records[t]["rag_chain"] = "hangs"

StuckCount == Cardinality({t \in Tasks : Stuck(t)})

\* C12: add_request never waits for task execution.  A caller that keeps
\* calling add_request gets every call through, whatever the work
\* functions do (also when all max_concurrent slots are held by work
\* functions that never return): all MaxTasks calls return.
C12_AddRequestReturns == <>(Len(records) = MaxTasks /\ caller # "add_locked")

\* add_request holds the lock while max_concurrent execution units are
\* inside work functions that never return
C12_Witness ==
    /\ max_concurrent >= 1
    /\ StuckCount >= max_concurrent
    /\ caller = "add_locked"
    /\ lock = CallerThread

\* ----------------------------------------------------------------- C13
\* the execution unit of t has incremented the counter and not yet
\* decremented it
InFlight(t) ==
    unit[t].pc \in {"invoke", "returned", "completed_locked", "raised",
                    "error_locked", "finally", "finally_locked"}

\* no execution unit is running
NoUnitRunning == \A t \in 1..MaxTasks : unit[t].pc \in {"unborn", "done"}

\* C13: every execution unit decrements current_processing exactly once,
\* as its last locked step, on the success and on the failure path: the
\* counter is the number of units between their increment and their
\* decrement, it is never negative, it is 0 when no unit is running, and it
\* only goes down by one, in the finally clause of a unit.
C13_DecrementOnce ==
    /\ [](/\ current_processing = Cardinality({t \in 1..MaxTasks : InFlight(t)})
          /\ current_processing >= 0
          /\ NoUnitRunning => current_processing = 0)
    /\ [][current_processing' < current_processing =>
            /\ current_processing' = current_processing - 1
            /\ \E t \in 1..MaxTasks :
                  /\ unit[t].pc = "finally_locked"
                  /\ unit'[t].pc = "task_done"]_vars

\* a unit has ended on each path and the counter is back to 0
C13_Witness ==
    /\ current_processing = 0
    /\ NoUnitRunning
    /\ \E t \in Tasks : unit[t].pc = "done" /\ Status(t) = "completed"
    /\ \E t \in Tasks : unit[t].pc = "done" /\ Status(t) = "error"

\* ----------------------------------------------------------------- C14
\* the step of t's execution unit that records its failure (lines 162-166)
FailureStep(t) == unit[t].pc = "error_locked" /\ unit'[t].pc = "finally"

\* every submitted task whose work function returns is 'completed'
AllAnswered ==
    \A t \in Tasks : records[t]["rag_chain"] = "answers" => Status(t) = "completed"

\* C14: error containment.  The step that records a task's failure changes
\* no other record, and failures (of any kind) do not stop the dispatcher:
\* with max_concurrent >= 1 and no work function that never returns, every
\* task whose work function returns is in the end 'completed', whatever
\* tasks failed before it.
C14_ErrorContainment ==
    /\ [][\A t \in Tasks :
            FailureStep(t) =>
                \A u \in Tasks \ {t} : records'[u] = records[u]]_vars
    /\ ([]NoHangingChain /\ [](max_concurrent >= 1)) =>
           <>[](Len(records) = MaxTasks /\ AllAnswered)

\* a task submitted after a task that failed has completed
C14_Witness ==
    \E t \in Tasks, u \in Tasks :
        /\ t < u
        /\ Status(t) = "error"
        /\ unit[t].pc = "done"
        /\ Status(u) = "completed"

\* ----------------------------------------------------------------- C15
\* C15: lock discipline.  Every step that reads or writes the backlog,
\* active_requests, completed_requests or current_processing is taken by
\* the thread that holds self.lock.  The dispatcher reads
\* current_processing (line 123) and takes from the backlog (line 124)
\* without ever acquiring the lock; the statement is violated.
C15_LockDiscipline ==
    [][/\ (WorkerCheck \/ WorkerGet \/ WorkerEmpty) => lock = WorkerThread
       /\ CallerStep => lock = CallerThread
       /\ \A t \in 1..MaxTasks :
             (UnitProcessing(t) \/ UnitCompleted(t) \/ UnitError(t)
                 \/ UnitFinally(t)) => lock = UnitThread(t)]_vars

\* the part of the discipline that the code keeps: the caller and the
\* execution units touch the shared structures only inside locked blocks
C15_LockDisciplineOutsideDispatcher ==
    [][/\ CallerStep => lock = CallerThread
       /\ \A t \in 1..MaxTasks :
             (UnitProcessing(t) \/ UnitCompleted(t) \/ UnitError(t)
                 \/ UnitFinally(t)) => lock = UnitThread(t)]_vars

\* ----------------------------------------------------------------- C16
\* the positions inside a `with self.lock:` block of an execution unit
LockedPositions ==
    {"start_locked", "completed_locked", "error_locked", "finally_locked"}

\* C16: no thread holds self.lock while a work function is executing on
\* its behalf: an execution unit inside invoke does not own the lock, and
\* whoever owns the lock is inside one of the short locked blocks, so a
\* lookup only ever waits for such a block.
C16_NoLockAcrossInvoke ==
    /\ \A t \in 1..MaxTasks :
          /\ unit[t].pc = "invoke" => lock # UnitThread(t)
          /\ lock = UnitThread(t) <=> unit[t].pc \in LockedPositions
    /\ lock = CallerThread <=> caller \in {"add_locked", "lookup_locked"}

\* a lookup holds the lock while an execution unit is inside a work
\* function that never returns
C16_Witness ==
    /\ caller = "lookup_locked"
    /\ lock = CallerThread
    /\ \E t \in Tasks : Stuck(t)

\* ----------------------------------------------------------------- C17
\* every work function submitted so far returns
AllChainsAnswer == \A t \in Tasks : records[t]["rag_chain"] = "answers"

\* C17: with max_concurrent = 1 and tasks T1, T2, ... submitted in that
\* order with distinct ids and work functions that return, the tasks reach
\* 'completed' in the order of submission: no task is 'completed' while a
\* task submitted before it is not.  The dispatcher can start the unit of
\* T2 before the unit of T1 has incremented the counter, and T2 can then
\* complete first; the statement is violated.
C17_CompletionOrder ==
    (max_concurrent = 1 /\ DistinctIds /\ AllChainsAnswer) =>
        \A a \in Tasks, b \in Tasks :
            (a < b /\ Status(b) = "completed") => Status(a) = "completed"

\* ----------------------------------------------------------------- C18
\* C18: every record in status 'completed' or 'error' has its end_time
\* set, and every record in status 'processing' or later has its
\* start_time set.  The handler of lines 162-166 sets no end_time; the
\* statement is violated.
C18_Timestamps ==
    \A t \in Tasks :
        /\ Terminal(t) => "end_time" \in DOMAIN records[t]
        /\ Status(t) # "queued" => "start_time" \in DOMAIN records[t]

\* ----------------------------------------------------------------- C19
\* C19: a record has a 'response' field only if its status is 'completed'
\* and an 'error' field only if its status is 'error'; no record has both.
C19_ResultFields ==
    \A t \in Tasks :
        /\ "response" \in DOMAIN records[t] => Status(t) = "completed"
        /\ "error" \in DOMAIN records[t] => Status(t) = "error"
        /\ ~({"response", "error"} \subseteq DOMAIN records[t])

\* one record carries a response and another an error
C19_Witness ==
    /\ \E t \in Tasks : "response" \in DOMAIN records[t]
    /\ \E t \in Tasks : "error" \in DOMAIN records[t]

\* ----------------------------------------------------------------- C20
\* C20: get_request_status(id) returns None for an id that is in neither
\* map, the finished record for an id that is in completed_requests, and
\* otherwise the live record; the call changes neither the backlog, nor a
\* map, nor a record, nor the counter.
C20_StatusLookup ==
    /\ [](\A request_id \in Ids :
            /\ (request_id \notin DOMAIN completed_requests
                   /\ request_id \notin DOMAIN active_requests)
                  => ~Truthy(GetRequestStatus(request_id))
            /\ request_id \in DOMAIN completed_requests
                  => GetRequestStatus(request_id)
                        = records[completed_requests[request_id]]
            /\ (request_id \notin DOMAIN completed_requests
                   /\ request_id \in DOMAIN active_requests)
                  => GetRequestStatus(request_id)
                        = records[active_requests[request_id]])
    /\ [][Lookup => UNCHANGED <<queue, unfinished_tasks, records,
                                active_requests, completed_requests,
                                current_processing>>]_vars

\* a lookup is under way while one id is unknown and the other is in both
\* maps, with a finished record and a newer live one
C20_Witness ==
    /\ caller = "lookup_locked"
    /\ \E a \in Ids, b \in Ids :
          /\ a \notin DOMAIN completed_requests \cup DOMAIN active_requests
          /\ b \in DOMAIN completed_requests \cap DOMAIN active_requests
          /\ completed_requests[b] # active_requests[b]
          /\ GetRequestStatus(b) = records[completed_requests[b]]

\* ----------------------------------------------------------------- C21
\* how far the execution unit of a record has got
Rank(pc) ==
    CASE pc = "unborn" -> 0
      [] pc \in {"start", "start_locked"} -> 1
      [] pc = "invoke" -> 2
      [] pc \in {"returned", "completed_locked", "raised", "error_locked"} -> 3
      [] pc \in {"finally", "finally_locked"} -> 4
      [] pc = "task_done" -> 5
      [] pc = "done" -> 6

\* the work function of record t has been called
Invoked(t) == Rank(unit[t].pc) >= 2

\* the caller has made all its add_request calls and the work function of
\* each has been called; a call that was made stays made, so this is
\* reached if and only if every submitted task is eventually invoked
AllInvoked == Len(records) = MaxTasks /\ \A t \in Tasks : Invoked(t)

\* the work function of a record is called at most once: a record is in the
\* backlog at most once and only before its unit exists, an execution unit
\* never goes back, the call is entered only from the first locked block,
\* and a record in a terminal status is neither in the backlog nor in the
\* dispatcher's hands, its unit being past the call
AtMostOneInvocation ==
    /\ [](/\ \A i \in 1..Len(queue), j \in 1..Len(queue) :
                queue[i] = queue[j] => i = j
          /\ \A i \in 1..Len(queue) : unit[queue[i]].pc = "unborn"
          /\ worker.pc = "start" => unit[worker.req].pc = "unborn"
          /\ \A t \in Tasks :
                Terminal(t) =>
                    /\ \A i \in 1..Len(queue) : queue[i] # t
                    /\ worker.req # t
                    /\ Rank(unit[t].pc) >= 4)
    /\ [][\A t \in 1..MaxTasks :
            /\ Rank(unit[t].pc') >= Rank(unit[t].pc)
            /\ (unit[t].pc # "invoke" /\ unit[t].pc' = "invoke")
                  => unit[t].pc = "start_locked"]_vars

\* C21: for each add_request call the work function is invoked exactly once
\* over the whole run, at most once at any prefix, and a task in status
\* 'error' is never re-queued or re-invoked.  With max_concurrent = 0, or
\* behind work functions that never return, a submitted task is never
\* invoked; the statement is violated.
C21_InvokedExactlyOnce ==
    /\ AtMostOneInvocation
    /\ <>AllInvoked

\* C21, amended: the work function of each add_request call is invoked at
\* most once at any prefix and a task in status 'error' is never re-queued
\* or re-invoked; with max_concurrent >= 1, fair scheduling and no work
\* function that never returns it is invoked exactly once.
C21_InvokedOnceGivenSlots ==
    /\ AtMostOneInvocation
    /\ <>(~NoHangingChain \/ max_concurrent < 1 \/ AllInvoked)

\* a task has failed and its unit has ended, another has been invoked
C21_Witness ==
    \E a \in Tasks, b \in Tasks :
        /\ a # b
        /\ Status(a) = "error" /\ unit[a].pc = "done"
        /\ Invoked(b)

\* ----------------------------------------------------------------- C22
\* C22: a work function that never returns holds one concurrency slot for
\* ever: while k tasks are stuck inside their work functions, at most
\* max_concurrent - k other tasks are in 'processing'.  The dispatcher that
\* has read current_processing before a unit incremented it starts a unit
\* for which no slot is left; the statement is violated.
C22_StuckHoldsSlot ==
    max_concurrent >= 1 =>
        Cardinality({t \in Tasks : Status(t) = "processing" /\ ~Stuck(t)})
            <= max_concurrent - StuckCount

\* ----------------------------------------------------------------- C23
\* at most one of the work functions passed so far never returns
AtMostOneHangs ==
    Cardinality({t \in Tasks : records[t]["rag_chain"] = "hangs"}) <= 1

\* C23: with max_concurrent >= 2 and one task whose work function never
\* returns, under fair scheduling the dispatcher still takes every submitted
\* task out of the backlog and starts its unit, and every other task whose
\* work function returns eventually reaches a terminal status.  (A second
\* work function that never returns, once submitted, stays submitted, and
\* a status that is terminal stays terminal: the behaviours that keep the
\* premise reach a state in which all tasks have got there.)
C23_BlockedUnitBlocksOnlyItself ==
    <>(\/ max_concurrent < 2
       \/ ~AtMostOneHangs
       \/ /\ Len(records) = MaxTasks
          /\ \A t \in Tasks :
                /\ unit[t].pc # "unborn"
                /\ records[t]["rag_chain"] = "answers" => Terminal(t))

\* a task is stuck in its work function and a task submitted after it has
\* completed
C23_Witness ==
    /\ max_concurrent >= 2
    /\ \E a \in Tasks, b \in Tasks :
          /\ a < b
          /\ Stuck(a)
          /\ Status(b) = "completed" /\ unit[b].pc = "done"

\* ----------------------------------------------------------------- C24
\* C24: get_queue_stats returns queue_size equal to the backlog length,
\* processing_count equal to current_processing and max_concurrent equal to
\* the value given at construction; the counter does not move while the
\* call holds the lock, the call changes no state, and no operation
\* modifies max_concurrent.
C24_QueueStats ==
    /\ [](/\ GetQueueStats.queue_size = Len(queue)
          /\ GetQueueStats.processing_count = current_processing
          /\ GetQueueStats.max_concurrent = max_concurrent)
    /\ [][/\ max_concurrent' = max_concurrent
          /\ caller = "lookup_locked" => current_processing' = current_processing
          /\ Lookup => UNCHANGED <<max_concurrent, queue, unfinished_tasks,
                                   records, add_result, active_requests,
                                   completed_requests, current_processing,
                                   worker, unit>>]_vars

\* a lookup is under way with one request in the backlog, two in the live
\* map and one being processed
C24_Witness ==
    /\ caller = "lookup_locked"
    /\ GetQueueStats.queue_size = 1
    /\ GetQueueStats.active_count = 2
    /\ GetQueueStats.processing_count = 1
    /\ GetQueueStats.max_concurrent = 1

\* ----------------------------------------------------------------- C25
\* C25: a newly constructed RequestQueue(max_concurrent = N) has
\* max_concurrent = N, current_processing = 0, empty active_requests, empty
\* completed_requests and an empty backlog, and stays so until the first
\* add_request: the dispatcher running on the empty backlog and the lookups
\* change none of them.
C25_FreshQueue ==
    /\ [](records = <<>> =>
            /\ max_concurrent \in -1..MaxConcurrent
            /\ current_processing = 0
            /\ active_requests = EmptyDict
            /\ completed_requests = EmptyDict
            /\ queue = <<>>
            /\ unfinished_tasks = 0
            /\ \A t \in 1..MaxTasks : unit[t].pc = "unborn")
    /\ [][records' = <<>> => max_concurrent' = max_concurrent]_vars

\* before the first add_request the dispatcher has found the backlog empty
\* and a lookup is under way
C25_Witness ==
    /\ records = <<>>
    /\ worker.pc = "sleep"
    /\ caller = "lookup_locked"
    /\ GetQueueStats = [queue_size |-> 0, active_count |-> 0,
                        processing_count |-> 0, max_concurrent |-> 2]

\* ----------------------------------------------------------------- C26
\* C26: add_request(id, query, chain) with a fresh id, in one step, creates
\* a record with status 'queued', inserts it in active_requests and appends
\* it at the tail of the backlog; completed_requests, current_processing
\* and every other record are unchanged, and get_request_status(id) then
\* returns that record.
C26_AddRequestEffect ==
    [][Len(records') = Len(records) + 1 =>
        LET t == Len(records) + 1 IN
        \A request_id \in Ids :
            (records'[t]["id"] = request_id /\ Submissions(request_id) = 0) =>
                /\ records'[t]["status"] = "queued"
                /\ DOMAIN records'[t] =
                       {"id", "query", "rag_chain", "timestamp", "status"}
                /\ active_requests' = DictSet(active_requests, request_id, t)
                /\ queue' = Append(queue, t)
                /\ completed_requests' = completed_requests
                /\ current_processing' = current_processing
                /\ max_concurrent' = max_concurrent
                /\ \A u \in Tasks : records'[u] = records[u]
                /\ Truthy(GetRequestStatus(request_id))'
                /\ GetRequestStatus(request_id)' = records'[t]
                /\ add_result'[t] = request_id]_vars

\* the second request, with an id of its own, has just been added behind
\* the first, which is still in the backlog
C26_Witness ==
    /\ Len(records) = 2
    /\ DistinctIds
    /\ queue = <<1, 2>>
    /\ caller = "idle"
    /\ Status(2) = "queued"
    /\ active_requests[records[2]["id"]] = 2
    /\ GetRequestStatus(records[2]["id"]) = records[2]

\* ----------------------------------------------------------------- C27
\* C27: a failure of any kind in the work function, also one that is not an
\* Exception (SystemExit, KeyboardInterrupt), ends the task in status
\* 'error' outside the live map: once its execution unit has ended, the
\* record is not left in the live map with status 'processing'.  The
\* handler of line 161 catches Exception only; the statement is violated.
C27_AnyFailureIsError ==
    \A t \in Tasks :
        (unit[t].pc = "done" /\ records[t]["rag_chain"] \in {"raises", "exits"})
            => /\ Status(t) = "error"
               /\ \A request_id \in DOMAIN active_requests :
                      active_requests[request_id] # t

\* ----------------------------------------------------------------- C28
\* the records whose execution unit has run its first locked block and not
\* yet the decrement of its finally clause
Running == {t \in Tasks : Rank(unit[t].pc) \in 2..4}

\* C28: in every state observed under the lock, current_processing equals
\* the number of records whose status is 'processing'.  The status leaves
\* 'processing' in the locked block of lines 152-157 or 162-166 and the
\* counter is decremented in a later block (lines 171-172); a lookup that
\* gets the lock in between sees a counter that is one too high.  The
\* statement is violated.
C28_CounterEqualsProcessing ==
    lock # Free => current_processing = ProcessingCount

\* C28, amended: step 1 is atomic and the counter is consistent with the
\* execution units: in every state current_processing equals the number of
\* units that have run their first locked block and not yet their final
\* decrement.  That is the number of 'processing' records, plus the records
\* already 'completed' or 'error' whose unit has not yet decremented, minus
\* the records left 'processing' by a unit that has decremented.
C28_CounterEqualsRunningUnits ==
    /\ current_processing = Cardinality(Running)
    /\ current_processing =
          ProcessingCount
          + Cardinality({t \in Tasks : Terminal(t) /\ Rank(unit[t].pc) <= 4})
          - Cardinality({t \in Tasks :
                            Status(t) = "processing" /\ Rank(unit[t].pc) >= 5})
    /\ \A t \in Tasks : Status(t) = "queued" <=> Rank(unit[t].pc) <= 1

\* a lookup holds the lock while a record is 'completed' and its unit has
\* not yet decremented the counter
C28_Witness ==
    /\ caller = "lookup_locked"
    /\ current_processing = 1
    /\ ProcessingCount = 0
    /\ \E t \in Tasks : Status(t) = "completed" /\ unit[t].pc = "finally"

\* ----------------------------------------------------------------- C29
\* every add_request call, whatever maps its id is in, appends one entry to
\* the backlog and makes the new record the active_requests entry of its
\* id, and a backlog entry only leaves the backlog into the hands of the
\* dispatcher
SubmissionKeepsWork ==
    /\ [](caller = "add_locked" => ENABLED ResubmitAddRequest)
    /\ [][Len(records') = Len(records) + 1 =>
            LET t == Len(records) + 1 IN
            /\ queue' = Append(queue, t)
            /\ \E request_id \in Ids :
                  /\ records'[t]["id"] = request_id
                  /\ active_requests' = DictSet(active_requests, request_id, t)
                  /\ add_result'[t] = request_id
            /\ \A u \in Tasks : records'[u] = records[u]]_vars
    /\ [][Len(queue') < Len(queue) =>
            /\ queue' = Tail(queue)
            /\ worker.pc = "get"
            /\ worker' = [pc |-> "start", req |-> Head(queue)]]_vars

\* C29: submission never fails and never drops work: every add_request
\* call, also one whose id is already in active_requests or
\* completed_requests, appends exactly one entry to the backlog and replaces
\* the active_requests entry for that id, and each appended entry is later
\* executed.  With max_concurrent = 0, or behind work functions that never
\* return, an entry stays in the backlog for ever; the statement is
\* violated.
C29_SubmissionNeverDrops ==
    /\ SubmissionKeepsWork
    /\ <>(AllInvoked /\ queue = <<>>)

\* C29, amended: every add_request call, also one whose id is already in
\* a map, appends exactly one entry to the backlog and replaces the
\* active_requests entry for that id; no entry is dropped from the backlog,
\* and with max_concurrent >= 1, fair scheduling and no work function that
\* never returns, each appended entry is later executed.
C29_SubmissionNeverDropsGivenSlots ==
    /\ SubmissionKeepsWork
    /\ <>(~NoHangingChain \/ max_concurrent < 1
            \/ (AllInvoked /\ queue = <<>>))

\* the id was submitted while it was in completed_requests, the second
\* record has replaced nothing there yet and both have been executed
C29_Witness ==
    /\ Len(records) = 2
    /\ records[1]["id"] = records[2]["id"]
    /\ Terminal(1) /\ unit[1].pc = "done"
    /\ records[1]["id"] \in DOMAIN completed_requests
    /\ completed_requests[records[1]["id"]] = 1
    /\ records[2]["id"] \in DOMAIN active_requests
    /\ active_requests[records[2]["id"]] = 2
    /\ Status(2) = "processing"
    /\ Invoked(2)

\* ----------------------------------------------------------------- C30
\* C30: when an id is submitted again after its earlier task has been put
\* in the finished map, get_request_status(id) returns the earlier finished
\* record, of terminal status, while the new task is queued or processing;
\* the finished entry of the id is only replaced by an execution that ends,
\* in its completion or error block.
C30_StaleFinishedRecord ==
    /\ [](\A request_id \in Ids :
            (request_id \in DOMAIN completed_requests
               /\ request_id \in DOMAIN active_requests) =>
                LET earlier == completed_requests[request_id]
                    newer == active_requests[request_id]
                IN  /\ earlier < newer
                    /\ Terminal(earlier)
                    /\ Status(newer) \in {"queued", "processing"}
                    /\ GetRequestStatus(request_id) = records[earlier]
                    /\ GetRequestStatus(request_id)["status"]
                           \in {"completed", "error"})
    /\ [][\A request_id \in Ids, t \in Tasks :
            (/\ request_id \in DOMAIN completed_requests
             /\ completed_requests[request_id] # t
             /\ completed_requests'[request_id] = t)
                => /\ unit[t].pc \in {"completed_locked", "error_locked"}
                   /\ records[t]["status"] = "processing"
                   /\ records'[t]["status"] \in {"completed", "error"}]_vars

\* the earlier task of the id ended in 'error', the id was submitted again
\* and its new task is being processed: the lookup gives the 'error' record
C30_Witness ==
    \E request_id \in Ids :
        /\ request_id \in DOMAIN completed_requests
        /\ request_id \in DOMAIN active_requests
        /\ Status(active_requests[request_id]) = "processing"
        /\ GetRequestStatus(request_id)["status"] = "error"

\* ----------------------------------------------------------------- C31
\* C31: a caller that holds a record returned by get_request_status and
\* reads its fields without the lock never sees a torn record: whenever the
\* status is 'completed' the 'response' field is present, and whenever it is
\* 'error' the 'error' field is present.  Every record is in the live map
\* from its submission on, so the caller can hold any of them and read it in
\* any state; line 153 (163) assigns the status before line 154 (164)
\* assigns the field.  The statement is violated.
C31_NoTornRecord ==
    \A t \in Tasks :
        /\ Status(t) = "completed" => "response" \in DOMAIN records[t]
        /\ Status(t) = "error" => "error" \in DOMAIN records[t]

\* ----------------------------------------------------------------- C32
\* the position main.py shows for a waiting request (line 382)
DisplayedPosition(request_id) == GetQueuePosition(request_id) + 1

\* C32: whenever the polling step reads status 'queued' for a pending
\* request and then calls get_queue_position, the displayed value p + 1 is
\* at least 1.  While the dispatcher holds the dequeued record and its
\* execution unit has not yet run its first locked block, the status is
\* 'queued' and get_queue_position returns -1, with no step at all between
\* the two calls; the statement is violated.
C32_DisplayedPositionAtLeastOne ==
    \A t \in Tasks :
        LET request_id == records[t]["id"] IN
        (Truthy(GetRequestStatus(request_id))
            /\ GetRequestStatus(request_id)["status"] = "queued")
                => DisplayedPosition(request_id) >= 1

\* ----------------------------------------------------------------- C34
\* C34: every record in the backlog has status 'queued' and, the ids being
\* distinct, its id is a key of active_requests that maps to that record;
\* so get_queue_stats reports active_count >= queue_size.
C34_BacklogQueuedAndLive ==
    /\ \A i \in 1..Len(queue) : Status(queue[i]) = "queued"
    /\ DistinctIds =>
          /\ \A i \in 1..Len(queue) :
                /\ records[queue[i]]["id"] \in DOMAIN active_requests
                /\ active_requests[records[queue[i]]["id"]] = queue[i]
          /\ GetQueueStats.active_count >= GetQueueStats.queue_size

\* one request is being processed and another, with another id, waits in
\* the backlog: two live records, one backlog entry
C34_Witness ==
    /\ DistinctIds
    /\ ProcessingCount = 1
    /\ Len(queue) = 1
    /\ Status(queue[1]) = "queued"
    /\ GetQueueStats.active_count = 2
    /\ GetQueueStats.queue_size = 1

\* ----------------------------------------------------------------- C37
\* the execution units that have called task_done
TaskDoneCalls == Cardinality({t \in 1..MaxTasks : unit[t].pc = "done"})

\* C37: each dequeue is matched by exactly one task_done call of the
\* execution unit, on success and on failure: the unfinished-task count is
\* the number of puts minus the number of task_done calls, it is never
\* negative, no unit that was not dequeued calls task_done, and the count
\* is 0 when every submitted task has finished.
C37_TaskDoneMatchesDequeue ==
    /\ unfinished_tasks = Len(records) - TaskDoneCalls
    /\ unfinished_tasks >= 0
    /\ TaskDoneCalls <= Len(records) - Len(queue)
    /\ \A i \in 1..Len(queue) : unit[queue[i]].pc = "unborn"
    /\ (\A t \in Tasks : unit[t].pc = "done") => unfinished_tasks = 0

\* two tasks were submitted, one completed and one failed with an exception
\* that is not an Exception; both units have called task_done
C37_Witness ==
    /\ Len(records) = 2
    /\ \A t \in Tasks : unit[t].pc = "done"
    /\ \E t \in Tasks : Status(t) = "completed"
    /\ \E t \in Tasks : records[t]["rag_chain"] = "exits"
    /\ unfinished_tasks = 0

\* ----------------------------------------------------------------- C35
\* C35: with max_concurrent <= 0 the dispatcher never dequeues anything:
\* every submitted task stays in the backlog with status 'queued', no
\* execution unit is started, the dispatcher keeps idling (it sleeps again
\* and again), and add_request and the lookups still return.
C35_NoCapacity ==
    /\ [](max_concurrent <= 0 =>
            /\ queue = [i \in 1..Len(records) |-> i]
            /\ \A t \in Tasks : Status(t) = "queued"
            /\ \A t \in 1..MaxTasks : unit[t].pc = "unborn"
            /\ worker.pc \in {"check", "sleep"}
            /\ current_processing = 0
            /\ caller = "add_locked" => ENABLED UniqueAddRequest
            /\ caller = "lookup_locked" => ENABLED Lookup)
    /\ max_concurrent <= 0 =>
          /\ []<>(worker.pc = "sleep")
          /\ <>(Len(records) = MaxTasks /\ caller = "idle")
          /\ [](caller = "lookup_locked" => <>(caller = "idle"))

\* no capacity, every request submitted and still in the backlog, the
\* dispatcher asleep, a lookup under way
C35_Witness ==
    /\ max_concurrent <= 0
    /\ Len(records) = MaxTasks
    /\ Len(queue) = MaxTasks
    /\ \A t \in Tasks : Status(t) = "queued"
    /\ worker.pc = "sleep"
    /\ caller = "lookup_locked"

\* ----------------------------------------------------------------- C36
AliveDispatchers ==
    Cardinality({th \in 1..Len(threads) : threads[th] = "alive"})

\* C36: at most one dispatcher thread is alive at any time, for any
\* sequence of start_worker calls after the construction, also concurrent
\* ones; a start_worker call that finds the worker alive starts no thread
\* (and none raises).
C36_OneDispatcher ==
    /\ [](/\ AliveDispatchers <= 1
          /\ Len(threads) <= 1
          /\ Constructed => (AliveDispatchers = 1 /\ worker_thread = 1)
          /\ \A c \in Starters : starter[c] # "raised")
    /\ [][\A c \in Starters :
            (/\ starter[c] = "check"
             /\ starter'[c] # "check"
             /\ worker_thread # 0
             /\ threads[worker_thread] = "alive")
                => /\ starter'[c] = "returned"
                   /\ threads' = threads
                   /\ worker_thread' = worker_thread]_vars

\* after the construction one outside call has returned and another is at
\* its test, with the one dispatcher running
C36_Witness ==
    /\ Constructed
    /\ starter[1] = "returned"
    /\ starter[2] = "check"
    /\ AliveDispatchers = 1
    /\ Len(threads) = 1
    /\ worker.pc = "sleep"

\* ----------------------------------------------------------------- C33
\* the assistant messages built from the record of the t-th request: the
\* response and the error text both carry the query
MessagesFor(t) ==
    {k \in 1..Len(session_state.messages) :
        /\ session_state.messages[k].role = "assistant"
        /\ session_state.messages[k].content[2] # "Unknown error"
        /\ session_state.messages[k].content[2][2] = Query(t)}

IsPending(t) == \E k \in 1..Len(Pending) : Pending[k] = records[t]["id"]

\* every request has been submitted, has its one message and is no longer
\* pending
AllAnsweredOnce ==
    /\ Len(records) = MaxTasks
    /\ Pending = <<>>
    /\ \A t \in Tasks : Cardinality(MessagesFor(t)) = 1

\* at most one message per request, appended when the id leaves
\* pending_requests, and none for a task that is queued or processing
MessageSafety ==
    /\ [](\A t \in Tasks :
            /\ Cardinality(MessagesFor(t)) <= 1
            /\ MessagesFor(t) # {} => (Terminal(t) /\ ~IsPending(t))
            /\ \A k \in MessagesFor(t) :
                  session_state.messages[k].is_error <=> Status(t) = "error")
    /\ [][\A t \in Tasks :
            MessagesFor(t)' # MessagesFor(t) <=> (IsPending(t) /\ ~IsPending(t)')]_vars

\* C33: for every request id placed in pending_requests, over the reruns of
\* the script exactly one assistant message is appended, an answer if the
\* task completed, an error message if it failed, and the id leaves
\* pending_requests at that moment; no message is appended while the task
\* is queued or processing.  A task whose work function fails with an
\* exception that is not an Exception stays 'processing' in the live map:
\* it gets no message and stays pending for ever.  The statement is
\* violated.
C33_OneMessagePerRequest ==
    /\ MessageSafety
    /\ <>(~NoHangingChain \/ max_concurrent < 1 \/ AllAnsweredOnce)

\* the same for work functions that return or raise an Exception: holds
C33_OneMessagePerOrdinaryRequest ==
    /\ MessageSafety
    /\ <>(\/ \E t \in Tasks : records[t]["rag_chain"] \notin {"answers", "raises"}
          \/ max_concurrent < 1
          \/ AllAnsweredOnce)

====
